---- MODULE Spec2Model ----
(***************************************************************************)
(* Model of run.py (ENRAF report extractor): aggregation of TankRecords    *)
(* tables from the discovered .mdb files, the grade selection prompt, and  *)
(* the wide pivot written per grade.                                       *)
(*                                                                         *)
(* Representation.  A Python string is a sequence of one-character         *)
(* strings.  A nullable cell is a tagged tuple: None, Num(n) or Str(s).    *)
(* Timestamps are whole minutes, PRODUCT_TEMP is in thousandths before     *)
(* and hundredths after rounding, GSV is in tenths before and units after  *)
(* the integer cast.                                                       *)
(***************************************************************************)
EXTENDS Integers, Sequences, FiniteSets, TLC

\* ---------------------------------------------------------------- bounds
MaxFiles == 3
MaxReadings == 2
MaxChoiceLen == 4

\* ------------------------------------------------------------ cell values
None == <<"None">>
Num(n) == <<"num", n>>
Str(s) == <<"str", s>>

BoundedSeq(S, n) == UNION {[1..k -> S] : k \in 0..n}

\* ------------------------------------------------------- string functions
UpperChars == <<"A", "D", "E", "I", "J", "K", "L", "O", "P", "R", "S", "T", "U">>
LowerChars == <<"a", "d", "e", "i", "j", "k", "l", "o", "p", "r", "s", "t", "u">>

\* str.lower() on one character
Lower(c) ==
    IF \E i \in 1..Len(UpperChars) : UpperChars[i] = c
    THEN LowerChars[CHOOSE i \in 1..Len(UpperChars) : UpperChars[i] = c]
    ELSE c

LowerStr(s) == [i \in 1..Len(s) |-> Lower(s[i])]

\* code points of the characters that occur in tank identifiers
Ord(c) ==
    CASE c = "0" -> 48
      [] c = "1" -> 49
      [] c = "2" -> 50
      [] c = "T" -> 84

\* Python's < on two strings: lexicographic by code point
RECURSIVE StrLess(_, _)
StrLess(a, b) ==
    IF b = <<>> THEN FALSE
    ELSE IF a = <<>> THEN TRUE
    ELSE IF Ord(Head(a)) # Ord(Head(b)) THEN Ord(Head(a)) < Ord(Head(b))
    ELSE StrLess(Tail(a), Tail(b))

\* literal substring search, as the grade names hold no regex metacharacter
Contains(s, pat) ==
    \E i \in 1..(Len(s) - Len(pat) + 1) : SubSeq(s, i, i + Len(pat) - 1) = pat

\* Series.str.contains(grade_name, case=False, na=False) on one cell
StrContains(cell, grade_name) ==
    IF cell = None THEN FALSE
    ELSE Contains(LowerStr(cell[2]), LowerStr(grade_name))

IsSpace(c) == c = " "

\* str.strip()
RECURSIVE LStrip(_)
LStrip(s) == IF s # <<>> /\ IsSpace(Head(s)) THEN LStrip(Tail(s)) ELSE s

RECURSIVE RStrip(_)
RStrip(s) ==
    IF s # <<>> /\ IsSpace(s[Len(s)]) THEN RStrip(SubSeq(s, 1, Len(s) - 1)) ELSE s

Strip(s) == RStrip(LStrip(s))

\* str.split(","): always at least one token, empty tokens kept
RECURSIVE Split(_)
Split(s) ==
    IF \A i \in 1..Len(s) : s[i] # ","
    THEN <<s>>
    ELSE LET i == CHOOSE k \in 1..Len(s) :
                      s[k] = "," /\ \A j \in 1..(k - 1) : s[j] # ","
         IN  <<SubSeq(s, 1, i - 1)>> \o Split(SubSeq(s, i + 1, Len(s)))

\* ---------------------------------------------------------------- grades
DIESEL == <<"D", "I", "E", "S", "E", "L">>
ULP == <<"U", "L", "P">>
KERO == <<"K", "E", "R", "O">>
JET_A1 == <<"J", "E", "T", " ", "A", "1">>
All == <<"A", "l", "l">>

grade_map_keys == {<<"1">>, <<"2">>, <<"3">>, <<"4">>, <<"5">>}

grade_map(c) ==
    CASE c = <<"1">> -> DIESEL
      [] c = <<"2">> -> ULP
      [] c = <<"3">> -> KERO
      [] c = <<"4">> -> JET_A1
      [] c = <<"5">> -> All

AllGrades == <<DIESEL, ULP, KERO, JET_A1>>

\* variant: the loop over the tokens ends at the first unknown code
RECURSIVE MapTokens_StopAtInvalid(_)
MapTokens_StopAtInvalid(toks) ==
    IF toks = <<>> THEN <<>>
    ELSE LET c == Strip(Head(toks))
         IN  IF c \in grade_map_keys
             THEN <<grade_map(c)>> \o MapTokens_StopAtInvalid(Tail(toks))
             ELSE <<>>

\* the else branch of the selection: one grade per token that is a key
RECURSIVE MapTokens(_)
MapTokens(toks) ==
    IF toks = <<>> THEN <<>>
    ELSE LET c == Strip(Head(toks))
         IN  (IF c \in grade_map_keys THEN <<grade_map(c)>> ELSE <<>>)
             \o MapTokens(Tail(toks))

SelectGrades(choice) ==
    IF choice \in grade_map_keys /\ grade_map(choice) = All
    THEN AllGrades
    ELSE MapTokens(Split(choice))

\* ------------------------------------------------------- table read-out
\* round half to even to a multiple of unit (numpy / pandas rounding)
RoundHalfEven(x, unit) ==
    LET q == x \div unit
        r == x % unit
    IN  IF 2 * r < unit THEN q
        ELSE IF 2 * r > unit THEN q + 1
        ELSE IF q % 2 = 0 THEN q ELSE q + 1

\* astype(int): the fractional part is dropped
Trunc(x, unit) == IF x >= 0 THEN x \div unit ELSE -((-x) \div unit)

NormalizeRow(r) ==
    [BACKGROUND_TIME_STAMP |-> 2 * RoundHalfEven(r.BACKGROUND_TIME_STAMP, 2),
     TANK_NAME |-> r.TANK_NAME,
     PRODUCT_NAME |-> r.PRODUCT_NAME,
     PRODUCT_TEMP |-> IF r.PRODUCT_TEMP = None THEN None
                      ELSE Num(RoundHalfEven(r.PRODUCT_TEMP[2], 10)),
     CORRECTION_FACTOR |-> r.CORRECTION_FACTOR,
     GSV |-> Num(Trunc(r.GSV[2], 10)),
     PRODUCT_LEVEL |-> r.PRODUCT_LEVEL]

\* the frame read_table_data returns for a table it could read
NormalizeTable(t) == [i \in 1..Len(t) |-> NormalizeRow(t[i])]

\* GSV.astype(int) raises on a missing value
CastFails(t) == \E i \in 1..Len(t) : t[i].GSV = None

\* pd.concat(all_data, ignore_index=True)
RECURSIVE Concat(_)
Concat(dfs) == IF dfs = <<>> THEN <<>> ELSE Head(dfs) \o Concat(Tail(dfs))

\* ------------------------------------------------------------ the pivot
tank_cols == <<"PRODUCT_NAME", "PRODUCT_TEMP", "CORRECTION_FACTOR", "GSV", "PRODUCT_LEVEL">>

\* combined_df[PRODUCT_NAME contains grade_name], rows kept in frame order
RECURSIVE FilterGrade(_, _)
FilterGrade(df, grade_name) ==
    IF df = <<>> THEN <<>>
    ELSE (IF StrContains(Head(df).PRODUCT_NAME, grade_name) THEN <<Head(df)>> ELSE <<>>)
         \o FilterGrade(Tail(df), grade_name)

\* sort key (BACKGROUND_TIME_STAMP, TANK_NAME)
KeyLess(a, b) ==
    \/ a.BACKGROUND_TIME_STAMP < b.BACKGROUND_TIME_STAMP
    \/ /\ a.BACKGROUND_TIME_STAMP = b.BACKGROUND_TIME_STAMP
       /\ StrLess(a.TANK_NAME, b.TANK_NAME)

\* stable insertion of r into a sorted frame: after every row not greater
RECURSIVE InsertRow(_, _)
InsertRow(r, s) ==
    IF s = <<>> THEN <<r>>
    ELSE IF KeyLess(r, Head(s)) THEN <<r>> \o s
    ELSE <<Head(s)>> \o InsertRow(r, Tail(s))

\* sort_values(by=[BACKGROUND_TIME_STAMP, TANK_NAME]), a stable lexsort
RECURSIVE SortValues(_)
SortValues(df) ==
    IF df = <<>> THEN <<>>
    ELSE InsertRow(df[Len(df)], SortValues(SubSeq(df, 1, Len(df) - 1)))

\* variant: the tanks in order of first appearance, not sorted
RECURSIVE TankOrderOf_Unsorted(_)
TankOrderOf_Unsorted(ulp_df) ==
    IF ulp_df = <<>> THEN <<>>
    ELSE LET front == TankOrderOf_Unsorted(SubSeq(ulp_df, 1, Len(ulp_df) - 1))
             t == ulp_df[Len(ulp_df)].TANK_NAME
         IN  IF \E i \in 1..Len(front) : front[i] = t THEN front ELSE Append(front, t)

\* sorted(ulp_df[TANK_NAME].unique())
RECURSIVE SortedTanks(_)
SortedTanks(S) ==
    IF S = {} THEN <<>>
    ELSE LET m == CHOOSE x \in S : \A y \in S \ {x} : StrLess(x, y)
         IN  <<m>> \o SortedTanks(S \ {m})

TankOrderOf(ulp_df) == SortedTanks({ulp_df[i].TANK_NAME : i \in 1..Len(ulp_df)})

\* variant: one timestamp per reading, duplicates kept
TimestampsOf_NoUnique(ulp_df) == [i \in 1..Len(ulp_df) |-> ulp_df[i].BACKGROUND_TIME_STAMP]

\* sorted(ulp_df[BACKGROUND_TIME_STAMP].unique())
RECURSIVE SortedTs(_)
SortedTs(S) ==
    IF S = {} THEN <<>>
    ELSE LET m == CHOOSE x \in S : \A y \in S : x <= y
         IN  <<m>> \o SortedTs(S \ {m})

TimestampsOf(ulp_df) == SortedTs({ulp_df[i].BACKGROUND_TIME_STAMP : i \in 1..Len(ulp_df)})

\* rec = ulp_df[(ts matches) & (tank matches)], as indices into ulp_df
Rec(ulp_df, ts, tank) ==
    {i \in 1..Len(ulp_df) :
        ulp_df[i].BACKGROUND_TIME_STAMP = ts /\ ulp_df[i].TANK_NAME = tank}

\* variant: the first row of the whole filtered frame instead of rec
FirstRec_OfFrame(ulp_df, rec) ==
    <<ulp_df[1].PRODUCT_NAME, ulp_df[1].PRODUCT_TEMP,
      ulp_df[1].CORRECTION_FACTOR, ulp_df[1].GSV, ulp_df[1].PRODUCT_LEVEL>>

\* rec.iloc[0][tank_cols].tolist()
FirstRec(ulp_df, rec) ==
    LET i == CHOOSE k \in rec : \A j \in rec : k <= j
    IN  <<ulp_df[i].PRODUCT_NAME, ulp_df[i].PRODUCT_TEMP,
          ulp_df[i].CORRECTION_FACTOR, ulp_df[i].GSV, ulp_df[i].PRODUCT_LEVEL>>

\* variant: a tank without a reading at ts takes its values from its first
\* reading at any timestamp
TankBlock_FillFromOther(ulp_df, ts, tank) ==
    LET rec == Rec(ulp_df, ts, tank)
        any == {i \in 1..Len(ulp_df) : ulp_df[i].TANK_NAME = tank}
    IN  IF rec # {}
        THEN <<tank>> \o FirstRec(ulp_df, rec)
        ELSE <<tank>> \o FirstRec(ulp_df, any)

\* the cells one tank contributes to the row of ts
TankBlock(ulp_df, ts, tank) ==
    LET rec == Rec(ulp_df, ts, tank)
    IN  IF rec # {}
        THEN <<tank>> \o FirstRec(ulp_df, rec)
        ELSE <<tank>> \o [k \in 1..Len(tank_cols) |-> None]

\* the inner loop over tank_order
RECURSIVE RowCells(_, _, _)
RowCells(ulp_df, ts, tanks) ==
    IF tanks = <<>> THEN <<>>
    ELSE TankBlock(ulp_df, ts, Head(tanks)) \o RowCells(ulp_df, ts, Tail(tanks))

BuildRow(ulp_df, ts, tank_order) == <<ts>> \o RowCells(ulp_df, ts, tank_order)

\* header: the timestamp column, then one six-column group per tank
RECURSIVE BuildColumns(_)
BuildColumns(tanks) ==
    IF tanks = <<>> THEN <<"BACKGROUND_TIME_STAMP">>
    ELSE BuildColumns(Tail(tanks)) \o <<"TANK_NAME">> \o tank_cols

\* the frame Grade_Extract writes for (combined_df, grade_name)
WideFrame(df, grade_name) ==
    LET ulp_df == SortValues(FilterGrade(df, grade_name))
        tank_order == TankOrderOf(ulp_df)
        tss == TimestampsOf(ulp_df)
    IN  [columns |-> BuildColumns(tank_order),
         rows |-> [i \in 1..Len(tss) |-> BuildRow(ulp_df, tss[i], tank_order)]]

ReportName(grade_name) == grade_name \o <<" Grade_report.csv">>

\* ------------------------------------------------------------ the inputs
T10 == <<"T", "1", "0">>
T2 == <<"T", "2">>
Tanks == {T10, T2}

\* product names as stored: one grade in mixed case, two grades, missing
ProductNames ==
    {Str(<<"U", "l", "p">>),
     Str(<<"u", "l", "p", "/", "J", "e", "t", " ", "A", "1">>),
     None}

RawTimestamps == {1, 3}

\* (PRODUCT_TEMP in thousandths, GSV in tenths) as stored
RawMeasures == {<<Num(20125), Num(1009)>>, <<None, Num(2000)>>}

RawRow(ts, tank, pn, m) ==
    [BACKGROUND_TIME_STAMP |-> ts, TANK_NAME |-> tank, PRODUCT_NAME |-> pn,
     PRODUCT_TEMP |-> m[1], CORRECTION_FACTOR |-> Num(1), GSV |-> m[2],
     PRODUCT_LEVEL |-> Num(7)]

RawRows ==
    {RawRow(ts, tank, pn, m) :
        ts \in RawTimestamps, tank \in Tanks, pn \in ProductNames, m \in RawMeasures}

\* the TankRecords tables met on disk in the aggregation runs
TableA ==
    <<RawRow(1, T2, Str(<<"U", "l", "p">>), <<Num(20125), Num(1009)>>),
      RawRow(3, T10, Str(<<"U", "l", "p">>), <<None, Num(2000)>>)>>
TableB ==
    <<RawRow(1, T2, Str(<<"U", "l", "p">>), <<None, Num(2000)>>)>>
TableNoGsv ==
    <<RawRow(1, T2, Str(<<"U", "l", "p">>), <<Num(20125), None>>)>>
Tables == {<<>>, TableA, TableB, TableNoGsv}

\* what the walk can find: kind says how far the file can be read
FileKinds ==
    {"not_mdb", "missing", "connect_error", "cursor_error", "tables_error",
     "no_table", "query_error"}

FileStates ==
    {[kind |-> k, table |-> <<>>] : k \in FileKinds}
    \cup {[kind |-> "ok", table |-> t] : t \in Tables}

ChoiceChars == {"1", "4", "5", "9", ",", " "}
Choices == BoundedSeq(ChoiceChars, MaxChoiceLen)

\* the answers given at the prompt on the aggregation and pivot runs
RunChoices == {<<"5">>, <<"4", ",", "2">>, <<"9">>}

output_csv == <<"Combined Tank records.csv">>

\* ------------------------------------------------------------- the state
VARIABLES
    files,           \* the .mdb candidates in the order os.walk yields them
    idx,             \* position of the walk in files
    pc,              \* where the run is
    conn,            \* self.conn of the reader inside the with block, 0 = None
    open_handles,    \* driver connections that are open
    res,             \* outcome of read_table_data inside the with block
    all_data,        \* list of frames read so far
    processed_files,
    reader,          \* file index the name `reader` is bound to, 0 = unbound
    combined_df,
    choice,
    selected_grades,
    gi,              \* position of the for loop over selected_grades
    calls,           \* grade_name of every Grade_Extract call made
    fs,              \* files written: name -> frame
    log,             \* what was printed
    escaped          \* exception that left combine_mdb_files_to_single_csv

vars ==
    <<files, idx, pc, conn, open_handles, res, all_data, processed_files, reader,
      combined_df, choice, selected_grades, gi, calls, fs, log, escaped>>

NoRes == [ok |-> FALSE, df |-> <<>>]

InitRest ==
    /\ idx = 1
    /\ pc = "walk"
    /\ conn = 0
    /\ open_handles = {}
    /\ res = NoRes
    /\ all_data = <<>>
    /\ processed_files = 0
    /\ reader = 0
    /\ combined_df = <<>>
    /\ choice = <<>>
    /\ selected_grades = <<>>
    /\ gi = 1
    /\ calls = <<>>
    /\ fs = <<>>
    /\ log = <<>>
    /\ escaped = "none"

Init ==
    /\ files \in BoundedSeq(FileStates, MaxFiles)
    /\ InitRest

\* ------------------------------------------------------- aggregation loop
\* next name from os.walk: skip it unless it ends in .mdb, else MDBReader(path)
Walk ==
    /\ pc = "walk"
    /\ idx <= Len(files)
    /\ IF files[idx].kind = "not_mdb"
       THEN /\ idx' = idx + 1
            /\ pc' = "walk"
       ELSE /\ idx' = idx
            /\ pc' = "enter"
    /\ conn' = 0
    /\ UNCHANGED <<files, open_handles, res, all_data, processed_files, reader,
                   combined_df, choice, selected_grades, gi, calls, fs, log, escaped>>

\* connect(): TRUE when it raises; the handle is open once pyodbc.connect returned
ConnectRaises(f) == f.kind \in {"missing", "connect_error", "cursor_error"}
ConnectOpens(f) == f.kind \notin {"missing", "connect_error"}

\* __enter__: when connect raises, __exit__ is not run and the except clause
\* of the loop moves on to the next file
Enter ==
    /\ pc = "enter"
    /\ LET f == files[idx]
       IN  /\ open_handles' = IF ConnectOpens(f) THEN open_handles \cup {idx}
                              ELSE open_handles
           /\ IF ConnectRaises(f)
              THEN /\ conn' = 0
                   /\ reader' = reader
                   /\ log' = Append(log, "Error processing")
                   /\ idx' = idx + 1
                   /\ pc' = "walk"
              ELSE /\ conn' = idx
                   /\ reader' = idx
                   /\ log' = Append(log, "Processing")
                   /\ idx' = idx
                   /\ pc' = "read"
    /\ UNCHANGED <<files, res, all_data, processed_files, combined_df, choice,
                   selected_grades, gi, calls, fs, escaped>>

\* read_table_data: TRUE when it raises
ReadRaises(f, c) ==
    \/ c = 0
    \/ f.kind \in {"tables_error", "no_table", "query_error"}
    \/ CastFails(f.table)

\* body of the with block: read, append, count
ReadTableData ==
    /\ pc = "read"
    /\ LET f == files[idx]
       IN  IF ReadRaises(f, conn)
           THEN /\ res' = NoRes
                /\ UNCHANGED <<all_data, processed_files>>
           ELSE /\ res' = [ok |-> TRUE, df |-> NormalizeTable(f.table)]
                /\ all_data' = Append(all_data, NormalizeTable(f.table))
                /\ processed_files' = processed_files + 1
    /\ pc' = "exit"
    /\ UNCHANGED <<files, idx, conn, open_handles, reader, combined_df, choice,
                   selected_grades, gi, calls, fs, log, escaped>>

\* variant: the except clause leaves the loop instead of continuing
Exit_BreakOnError ==
    /\ pc = "exit"
    /\ open_handles' = IF conn # 0 THEN open_handles \ {conn} ELSE open_handles
    /\ conn' = 0
    /\ log' = IF res.ok THEN log ELSE Append(log, "Error processing")
    /\ idx' = IF res.ok THEN idx + 1 ELSE Len(files) + 1
    /\ pc' = "walk"
    /\ UNCHANGED <<files, res, all_data, processed_files, reader, combined_df,
                   choice, selected_grades, gi, calls, fs, escaped>>

\* __exit__ -> close_connection, then the except clause if the body raised
Exit ==
    /\ pc = "exit"
    /\ open_handles' = IF conn # 0 THEN open_handles \ {conn} ELSE open_handles
    /\ conn' = 0
    /\ log' = IF res.ok THEN log ELSE Append(log, "Error processing")
    /\ idx' = idx + 1
    /\ pc' = "walk"
    /\ UNCHANGED <<files, res, all_data, processed_files, reader, combined_df,
                   choice, selected_grades, gi, calls, fs, escaped>>

\* a reader that failed in __enter__ is garbage: the interpreter may release
\* its connection at any later moment, or never
Finalize ==
    /\ \E h \in open_handles \ {conn} : open_handles' = open_handles \ {h}
    /\ UNCHANGED <<files, idx, pc, conn, res, all_data, processed_files, reader,
                   combined_df, choice, selected_grades, gi, calls, fs, log, escaped>>

\* variant: no test for an empty all_data before the hand-over
Finish_NoEmptyCheck ==
    /\ pc = "walk"
    /\ idx > Len(files)
    /\ combined_df' = Concat(all_data)
    /\ log' = Append(log, "Total records")
    /\ IF reader = 0
       THEN /\ escaped' = "NameError"
            /\ pc' = "done"
       ELSE /\ escaped' = escaped
            /\ pc' = "prompt"
    /\ UNCHANGED <<files, idx, conn, open_handles, res, all_data, processed_files,
                   reader, choice, selected_grades, gi, calls, fs>>

\* after the loop: nothing read -> return; else concat and hand over
Finish ==
    /\ pc = "walk"
    /\ idx > Len(files)
    /\ IF all_data = <<>>
       THEN /\ log' = Append(log, "No valid .mdb files found")
            /\ pc' = "done"
            /\ UNCHANGED <<combined_df, escaped>>
       ELSE /\ combined_df' = Concat(all_data)
            /\ log' = Append(log, "Total records")
            /\ IF reader = 0
               THEN /\ escaped' = "NameError"
                    /\ pc' = "done"
               ELSE /\ escaped' = escaped
                    /\ pc' = "prompt"
    /\ UNCHANGED <<files, idx, conn, open_handles, res, all_data, processed_files,
                   reader, choice, selected_grades, gi, calls, fs>>

\* ------------------------------------------------------- grade selection
save_to_csv(inp) ==
    /\ pc = "prompt"
    /\ choice' = Strip(inp)
    /\ selected_grades' = SelectGrades(Strip(inp))
    /\ gi' = 1
    /\ IF SelectGrades(Strip(inp)) = <<>>
       THEN /\ log' = Append(log, "No valid grade selected")
            /\ pc' = "done"
       ELSE /\ log' = log
            /\ pc' = "extract"
    /\ UNCHANGED <<files, idx, conn, open_handles, res, all_data, processed_files,
                   reader, combined_df, calls, fs, escaped>>

Prompt == \E inp \in RunChoices : save_to_csv(inp)

\* the prompt answered with any text of the bounded length
AnyPrompt == \E inp \in Choices : save_to_csv(inp)

\* to_csv(name): create or overwrite
WriteFile(f, name, frame) ==
    [n \in DOMAIN f \cup {name} |-> IF n = name THEN frame ELSE f[n]]

\* one turn of the loop over selected_grades
Grade_Extract ==
    /\ pc = "extract"
    /\ gi <= Len(selected_grades)
    /\ LET grade_name == selected_grades[gi]
       IN  /\ fs' = WriteFile(fs, ReportName(grade_name), WideFrame(combined_df, grade_name))
           /\ calls' = Append(calls, grade_name)
    /\ log' = Append(log, "Data saved")
    /\ gi' = gi + 1
    /\ pc' = IF gi = Len(selected_grades) THEN "done" ELSE "extract"
    /\ UNCHANGED <<files, idx, conn, open_handles, res, all_data, processed_files,
                   reader, combined_df, choice, selected_grades, escaped>>

Next ==
    \/ Walk
    \/ Enter
    \/ ReadTableData
    \/ Exit
    \/ Finalize
    \/ Finish
    \/ Prompt
    \/ Grade_Extract

Spec == Init /\ [][Next]_vars

\* -------------------------------------- runs that start at the prompt
\* the state at the prompt after one file with table t was read
InitAtPrompt(t) ==
    /\ files = <<[kind |-> "ok", table |-> t]>>
    /\ idx = 2
    /\ pc = "prompt"
    /\ conn = 0
    /\ open_handles = {}
    /\ res = [ok |-> TRUE, df |-> NormalizeTable(t)]
    /\ all_data = <<NormalizeTable(t)>>
    /\ processed_files = 1
    /\ reader = 1
    /\ combined_df = Concat(<<NormalizeTable(t)>>)
    /\ choice = <<>>
    /\ selected_grades = <<>>
    /\ gi = 1
    /\ calls = <<>>
    /\ fs = <<>>
    /\ log = <<"Processing", "Total records">>
    /\ escaped = "none"

\* pivot runs: every table of the bounded size, the answers of RunChoices
InitPivot == \E t \in BoundedSeq(RawRows, MaxReadings) : InitAtPrompt(t)

NextPivot ==
    \/ Prompt
    \/ Grade_Extract

SpecPivot == InitPivot /\ [][NextPivot]_vars

\* selection runs: the tables of Tables that can be read, every answer
InitSelect == \E t \in {u \in Tables : ~CastFails(u)} : InitAtPrompt(t)

NextSelect ==
    \/ AnyPrompt
    \/ Grade_Extract

SpecSelect == InitSelect /\ [][NextSelect]_vars

\* ======================================================= the properties
\* product name contains the grade, letter case ignored; a missing name never
MatchesGrade(r, g) ==
    /\ r.PRODUCT_NAME # None
    /\ LET pn == r.PRODUCT_NAME[2]
       IN  \E i \in 0..(Len(pn) - Len(g)) :
               \A k \in 1..Len(g) : Lower(pn[i + k]) = Lower(g[k])

MatchingIdx(g) == {j \in 1..Len(combined_df) : MatchesGrade(combined_df[j], g)}
MatchingTs(g) == {combined_df[j].BACKGROUND_TIME_STAMP : j \in MatchingIdx(g)}
MatchingTanks(g) == {combined_df[j].TANK_NAME : j \in MatchingIdx(g)}

\* a matching reading of tank t at timestamp ts exists
HasReading(g, ts, t) ==
    \E j \in MatchingIdx(g) :
        combined_df[j].BACKGROUND_TIME_STAMP = ts /\ combined_df[j].TANK_NAME = t

ReportRows(g) == fs[ReportName(g)].rows
NumBlocks(row) == (Len(row) - 1) \div 6
BlockTank(row, b) == row[6 * b - 4]
BlockFields(row, b) == SubSeq(row, 6 * b - 3, 6 * b + 1)
NullFields == <<None, None, None, None, None>>
CalledGrades == {calls[i] : i \in 1..Len(calls)}

\* C1: each report written by Grade_Extract has exactly one row per distinct
\* timestamp of the readings matching its grade, in strictly ascending
\* timestamp order; with no matching reading it has zero rows, and no error
\* is raised.
C1_OneRowPerTimestamp ==
    /\ escaped = "none"
    /\ \A g \in CalledGrades :
          LET rows == ReportRows(g)
          IN  /\ Len(rows) = Cardinality(MatchingTs(g))
              /\ {rows[k][1] : k \in 1..Len(rows)} = MatchingTs(g)
              /\ \A k \in 1..(Len(rows) - 1) : rows[k][1] < rows[k + 1][1]

\* two matching readings share a timestamp and give one row, while another
\* grade of the same run matches nothing and gives an empty report
C1_Witness ==
    /\ pc = "done"
    /\ \E g1, g2 \in CalledGrades :
          /\ Cardinality(MatchingIdx(g1)) = 2
          /\ Len(ReportRows(g1)) = 1
          /\ MatchingIdx(g2) = {}
          /\ ReportRows(g2) = <<>>

\* C2: every row of a report has 1 + 6 * n cells, n the number of distinct
\* tanks among the matching readings, and the tank identifiers of its blocks
\* are those tanks in ascending order, whichever tanks reported at the row's
\* timestamp.
C2_FixedTankBlocks ==
    \A g \in CalledGrades :
        LET rows == ReportRows(g)
            n == Cardinality(MatchingTanks(g))
        IN  \A k \in 1..Len(rows) :
                /\ Len(rows[k]) = 1 + 6 * n
                /\ \A b \in 1..n : BlockTank(rows[k], b) \in MatchingTanks(g)
                /\ \A b \in 1..(n - 1) :
                       StrLess(BlockTank(rows[k], b), BlockTank(rows[k], b + 1))

\* a report with two tanks where the first tank in order did not report at
\* the row's timestamp
C2_Witness ==
    \E g \in CalledGrades :
        \E k \in 1..Len(ReportRows(g)) :
            LET row == ReportRows(g)[k]
            IN  /\ Len(row) = 13
                /\ BlockTank(row, 1) = T10
                /\ BlockTank(row, 2) = T2
                /\ ~HasReading(g, row[1], T10)

\* C3: in the row of timestamp ts every tank t of the tank order has a block
\* whose identifier is t, and the five measurement cells of that block are
\* all null exactly when no matching reading exists for (ts, t).
C3_NullBlockIffMissing ==
    \A g \in CalledGrades :
        \A k \in 1..Len(ReportRows(g)) :
            LET row == ReportRows(g)[k]
            IN  \A t \in MatchingTanks(g) :
                    \E b \in 1..NumBlocks(row) :
                        /\ BlockTank(row, b) = t
                        /\ (BlockFields(row, b) = NullFields) <=> ~HasReading(g, row[1], t)

\* one row holds a null-filled block next to a populated block whose
\* temperature cell is itself null
C3_Witness ==
    \E g \in CalledGrades :
        \E k \in 1..Len(ReportRows(g)) :
            LET row == ReportRows(g)[k]
            IN  \E b1, b2 \in 1..NumBlocks(row) :
                    /\ BlockFields(row, b1) = NullFields
                    /\ BlockFields(row, b2) # NullFields
                    /\ BlockFields(row, b2)[2] = None

\* ------------------------------------------------------- grade selection
Tokens(c) == LET toks == Split(c) IN [i \in 1..Len(toks) |-> Strip(toks[i])]
ValidCodes == {<<"1">>, <<"2">>, <<"3">>, <<"4">>, <<"5">>}
ValidPositions(c) == {i \in 1..Len(Tokens(c)) : Tokens(c)[i] \in ValidCodes}
SelectedSet == {selected_grades[i] : i \in 1..Len(selected_grades)}

\* the prompt has been answered
Prompted == pc = "extract" \/ (pc = "done" /\ all_data # <<>> /\ escaped = "none")

\* C4: a selection that contains code 5 resolves to the four grades, and All
\* is never passed to the pivot.
C4_AllIsResolved ==
    /\ (Prompted /\ \E i \in 1..Len(Tokens(choice)) : Tokens(choice)[i] = <<"5">>)
          => selected_grades = AllGrades
    /\ All \notin CalledGrades

\* C5: an unknown code is dropped and the known codes next to it are still
\* selected and reported on; with no known code the pivot is not called, no
\* file is written and the outcome "No valid grade selected" is printed.
C5_InvalidCodesDropped ==
    Prompted =>
        /\ choice # <<"5">> =>
              /\ Len(selected_grades) = Cardinality(ValidPositions(choice))
              /\ \A i \in ValidPositions(choice) :
                     Tokens(choice)[i] # <<"5">> => grade_map(Tokens(choice)[i]) \in SelectedSet
        /\ pc = "done" => \A g \in SelectedSet : ReportName(g) \in DOMAIN fs
        /\ ValidPositions(choice) = {} =>
              /\ pc = "done"
              /\ calls = <<>>
              /\ DOMAIN fs = {}
              /\ log[Len(log)] = "No valid grade selected"

\* an unknown code in front of a known one: the known grade is reported
C5_Witness ==
    /\ pc = "done"
    /\ choice = <<"9", ",", "1">>
    /\ calls = <<DIESEL>>
    /\ DOMAIN fs = {ReportName(DIESEL)}

\* ------------------------------------------------------------ aggregation
Readable(f) == f.kind = "ok" /\ \A i \in 1..Len(f.table) : f.table[i].GSV # None

\* rows of the readable files among fl[1..n], in discovery order
RECURSIVE ExpectedRows(_, _)
ExpectedRows(fl, n) ==
    IF n = 0 THEN <<>>
    ELSE ExpectedRows(fl, n - 1)
         \o (IF Readable(fl[n]) THEN NormalizeTable(fl[n].table) ELSE <<>>)

LoopOver == pc \in {"prompt", "extract", "done"}

\* C6: a failing file is skipped and the files after it are still visited;
\* the unified set is the concatenation, in discovery order and with
\* duplicates kept, of the rows of the files that were read.
C6_SkipAndContinue ==
    /\ pc = "walk" => Concat(all_data) = ExpectedRows(files, idx - 1)
    /\ LoopOver =>
          /\ idx = Len(files) + 1
          /\ Concat(all_data) = ExpectedRows(files, Len(files))
          /\ processed_files = Cardinality({i \in 1..Len(files) : Readable(files[i])})
          /\ all_data # <<>> => combined_df = ExpectedRows(files, Len(files))

\* three files, the middle one without the table, the same table on both sides
C6_Witness ==
    /\ pc = "prompt"
    /\ Len(files) = 3
    /\ files[2].kind = "no_table"
    /\ files[1] = [kind |-> "ok", table |-> TableA]
    /\ files[3] = [kind |-> "ok", table |-> TableA]
    /\ Len(combined_df) = 4

source_columns ==
    <<"BACKGROUND_TIME_STAMP", "TANK_NAME", "PRODUCT_NAME", "PRODUCT_TEMP",
      "CORRECTION_FACTOR", "GSV", "PRODUCT_LEVEL">>

\* C7: once a file has yielded data the run writes the combined export at
\* the output path: the seven source columns, one row per reading, in order.
C7_CombinedExportWritten ==
    (LoopOver /\ all_data # <<>>) =>
        /\ output_csv \in DOMAIN fs
        /\ fs[output_csv].columns = source_columns
        /\ fs[output_csv].rows = combined_df

\* C8: when no file contributes data the run ends quietly: no exception, no
\* prompt, no pivot, no file written.
C8_NothingToDo ==
    all_data = <<>> =>
        /\ pc \notin {"prompt", "extract"}
        /\ escaped = "none"
        /\ calls = <<>>
        /\ selected_grades = <<>>
        /\ DOMAIN fs = {}
        /\ pc = "done" => log[Len(log)] = "No valid .mdb files found"

\* the run is over after every candidate failed
C8_Witness ==
    /\ pc = "done"
    /\ all_data = <<>>
    /\ Len(files) >= 2
    /\ \A i \in 1..Len(files) : files[i].kind \notin {"not_mdb", "ok"}

\* C10: at most one connection is open at any time, and none is open when
\* the next file is taken up, at grade selection, or at the end of the run.
C10_HandleClosed ==
    /\ Cardinality(open_handles) <= 1
    /\ pc \in {"walk", "enter", "prompt", "extract", "done"} => open_handles = {}

\* ------------------------------------------------- selection ALL, pivoted
BlockOf(r) ==
    <<r.TANK_NAME, r.PRODUCT_NAME, r.PRODUCT_TEMP, r.CORRECTION_FACTOR, r.GSV,
      r.PRODUCT_LEVEL>>

\* reading r fills a block of the report of grade g
Appears(r, g) ==
    \E k \in 1..Len(ReportRows(g)) :
        LET row == ReportRows(g)[k]
        IN  /\ row[1] = r.BACKGROUND_TIME_STAMP
            /\ \E b \in 1..NumBlocks(row) : SubSeq(row, 6 * b - 4, 6 * b + 1) = BlockOf(r)

\* every populated block of the report of g is a reading that matches g
BlocksAreMatchingReadings(g) ==
    \A k \in 1..Len(ReportRows(g)) :
        LET row == ReportRows(g)[k]
        IN  \A b \in 1..NumBlocks(row) :
                BlockFields(row, b) # NullFields =>
                    \E j \in MatchingIdx(g) :
                        /\ combined_df[j].BACKGROUND_TIME_STAMP = row[1]
                        /\ BlockOf(combined_df[j]) = SubSeq(row, 6 * b - 4, 6 * b + 1)

AllDone == pc = "done" /\ choice = <<"5">> /\ Len(calls) = 4
FourGrades == {DIESEL, ULP, KERO, JET_A1}

\* C9 as stated: with selection ALL every reading that matches one of the
\* four grades fills a block of one of the four reports, and every populated
\* block is a reading matching the grade of its report.
C9_NoReadingDropped ==
    AllDone =>
        /\ \A g \in FourGrades : BlocksAreMatchingReadings(g)
        /\ \A j \in 1..Len(combined_df) :
              (\E g \in FourGrades : MatchesGrade(combined_df[j], g))
                  => \E g \in FourGrades : Appears(combined_df[j], g)

\* C9 amended: with selection ALL every populated block is a reading matching
\* the grade of its report, and for every reading matching a grade the block
\* of its tank in the row of its timestamp in that grade's report is
\* populated by a matching reading of the same timestamp and tank.
C9_OnePerTimestampAndTank ==
    AllDone =>
        \A g \in FourGrades :
            /\ BlocksAreMatchingReadings(g)
            /\ \A j \in MatchingIdx(g) :
                  \E j2 \in MatchingIdx(g) :
                      /\ combined_df[j2].BACKGROUND_TIME_STAMP = combined_df[j].BACKGROUND_TIME_STAMP
                      /\ combined_df[j2].TANK_NAME = combined_df[j].TANK_NAME
                      /\ Appears(combined_df[j2], g)

\* two different readings of one tank at one timestamp match the same grade,
\* and one of them is absent from that grade's report
C9_Witness ==
    /\ AllDone
    /\ \E g \in FourGrades :
          \E j1, j2 \in MatchingIdx(g) :
              /\ j1 # j2
              /\ Appears(combined_df[j1], g)
              /\ ~Appears(combined_df[j2], g)

====
